---- MODULE Spec2Model ----
(***************************************************************************)
(* A state-machine model of assets/js/painttool.js: the shape classes, the *)
(* drawer object (committed shapes, undone shapes, the element being       *)
(* drawn, the ambient settings), the DOM event handlers that drive it and  *)
(* the JSON save / load codec.                                             *)
(*                                                                         *)
(* JavaScript objects have identity: drawer.shapes, drawer.undoneShapes    *)
(* and drawer.selectedElement hold references, and a handler that resizes  *)
(* drawer.selectedElement changes every place that holds the same object.  *)
(* The model keeps the shape objects in `heap` (a sequence of records) and *)
(* the three holders keep indexes into it; 0 is JavaScript's null.         *)
(* Unreferenced objects are dropped and the others renumbered in order of  *)
(* first reference, so that a state is one picture of the object graph.    *)
(***************************************************************************)
EXTENDS Integers, Sequences, FiniteSets, TLC

VARIABLES
    heap,             \* the Shape objects that are still referenced
    shapes,           \* drawer.shapes: references (0 = null)
    undoneShapes,     \* drawer.undoneShapes: references
    selectedShape,    \* drawer.selectedShape: the active tool
    selectedElement,  \* drawer.selectedElement: reference or null
    settings,         \* drawer.settings: the ambient settings
    filledData,       \* #fill-toggle's data-filled attribute
    activeLi,         \* the #shape-list items that carry class "active"
    widthValue,       \* #width-row td.value-data text, as a number
    fontValue,        \* #font-row td.value-data text: the number before "pt"
    widthData,        \* #width-row data-value
    fontData,         \* #font-row data-value
    event             \* history: the handler that ran last and how it ended

vars == <<heap, shapes, undoneShapes, selectedShape, selectedElement, settings,
          filledData, activeLi, widthValue, fontValue, widthData, fontData,
          event>>

\* Everything but the history variable.
progVars == <<heap, shapes, undoneShapes, selectedShape, selectedElement,
              settings, filledData, activeLi, widthValue, fontValue, widthData,
              fontData>>

null == 0

Abs(n) == IF n < 0 THEN -n ELSE n

Max(a, b) == IF a > b THEN a ELSE b

Min(a, b) == IF a < b THEN a ELSE b

Last(s) == s[Len(s)]

Front(s) == SubSeq(s, 1, Len(s) - 1)

Point(px, py) == [x |-> px, y |-> py]

(***************************************************************************)
(* Bounds of the model: the browser sets no limit on the number of shapes, *)
(* of points in a stroke or of characters in a text.                       *)
(***************************************************************************)
MaxShapes == 1

MaxPoints == 2

MaxChars == 1

(***************************************************************************)
(* The shape classes.  A record's cls field is the object's class          *)
(* (__proto__.constructor.name); the other fields are its own properties.  *)
(* Coordinates in this model are even numbers, so the halves taken by the  *)
(* ovals are whole.                                                        *)
(***************************************************************************)
Rectangle(position, st, width, height) ==
    [cls |-> "Rectangle", position |-> position, settings |-> st,
     width |-> width, height |-> height]

Oval(position, st, xRadius, yRadius) ==
    [cls |-> "Oval", position |-> position, settings |-> st,
     xRadius |-> xRadius, yRadius |-> yRadius,
     x |-> position.x, y |-> position.y]

Circle(position, st, radius) ==
    [Oval(position, st, radius, radius) EXCEPT !.cls = "Circle"]

Line(startPosition, st, endPosition) ==
    [cls |-> "Line", position |-> startPosition, settings |-> st,
     endPosition |-> [x |-> endPosition.x, y |-> endPosition.y]]

LineList(position, st) ==
    [cls |-> "LineList", position |-> position, settings |-> st,
     xList |-> <<>>, yList |-> <<>>]

EraseList(position, st) ==
    [cls |-> "EraseList", position |-> position, settings |-> st,
     xList |-> <<>>, yList |-> <<>>]

DrawnText(position, st) ==
    [cls |-> "DrawnText", position |-> position, settings |-> st,
     chars |-> <<>>]

\* Rectangle.resize that keeps the sizes, not the signed differences.
RectangleResizeUnsigned(o, x, y) ==
    [o EXCEPT !.width = Abs(x - o.position.x),
              !.height = Abs(y - o.position.y)]

RectangleResize(o, x, y) ==
    [o EXCEPT !.width = x - o.position.x, !.height = y - o.position.y]

OvalResize(o, x, y) ==
    [o EXCEPT !.x = x, !.y = y,
              !.xRadius = Abs(x - o.position.x) \div 2,
              !.yRadius = Abs(y - o.position.y) \div 2]

\* Circle.resize that takes each radius from its own axis, as Oval.resize.
CircleResizeAsOval(o, x, y) ==
    [o EXCEPT !.x = x, !.y = y,
              !.xRadius = Abs(x - o.position.x) \div 2,
              !.yRadius = Abs(y - o.position.y) \div 2]

CircleResize(o, x, y) ==
    LET radius == Max(Abs(x - o.position.x), Abs(y - o.position.y)) \div 2
    IN  [o EXCEPT !.x = x, !.y = y, !.xRadius = radius, !.yRadius = radius]

\* Line.resize on a Line whose endPosition is its position object.
LineResizeMovingAnchor(o, x, y) ==
    [o EXCEPT !.endPosition = [x |-> x, y |-> y],
              !.position = [x |-> x, y |-> y]]

LineResize(o, x, y) ==
    [o EXCEPT !.endPosition = [x |-> x, y |-> y]]

\* LineList.resize that pushes x and forgets y.
LineListResizeXOnly(o, x, y) ==
    [o EXCEPT !.xList = Append(@, x)]

LineListResize(o, x, y) ==
    [o EXCEPT !.xList = Append(@, x), !.yList = Append(@, y)]

EraseListResize(o, x, y) ==
    [o EXCEPT !.xList = Append(@, x), !.yList = Append(@, y)]

\* DrawnText.resize that adds every key but Backspace, whatever its length.
DrawnTextResizeAnyKey(o, key) ==
    IF key = "Backspace"
    THEN IF Len(o.chars) > 0 THEN [o EXCEPT !.chars = Front(@)] ELSE o
    ELSE [o EXCEPT !.chars = Append(@, key)]

\* DrawnText.resize(key)
DrawnTextResize(o, key) ==
    IF key = "Backspace"
    THEN IF Len(o.chars) > 0 THEN [o EXCEPT !.chars = Front(@)] ELSE o
    ELSE IF Len(key) = 1 THEN [o EXCEPT !.chars = Append(@, key)] ELSE o

\* o.resize(x, y), dispatched on the object's class.  DrawnText.resize takes
\* its first argument as the key.
resize(o, x, y) ==
    CASE o.cls = "Rectangle" -> RectangleResize(o, x, y)
      [] o.cls = "Oval"      -> OvalResize(o, x, y)
      [] o.cls = "Circle"    -> CircleResize(o, x, y)
      [] o.cls = "Line"      -> LineResize(o, x, y)
      [] o.cls = "LineList"  -> LineListResize(o, x, y)
      [] o.cls = "EraseList" -> EraseListResize(o, x, y)

\* What o.render(ctx) paints: the compositing mode in force when the shape is
\* stroked or filled, and the shape's own fields, which decide the pixels.
render(o) ==
    [globalCompositeOperation |->
         IF o.cls = "EraseList" THEN "destination-out" ELSE "source-over",
     shape |-> o]

(***************************************************************************)
(* The drawer object.                                                      *)
(***************************************************************************)
availableShapes ==
    [RECTANGLE |-> "rectangle", OVAL |-> "oval", CIRCLE |-> "circle",
     LINE |-> "line", LINE_LIST |-> "lineList", ERASE_LIST |-> "eraseList",
     DrawnText |-> "text", MOVE |-> "move"]

\* The <li data-shape=...> items of #shape-list, in document order.
ShapeList == <<"rectangle", "oval", "circle", "line", "lineList", "text">>

currentSettings ==
    [color |-> settings.color, filled |-> settings.filled,
     width |-> settings.width, font |-> settings.font]

\* currentSettingsEraser without the ten added to the width.
currentSettingsEraserPlain ==
    [color |-> settings.color, filled |-> settings.filled,
     width |-> settings.width, font |-> settings.font]

currentSettingsEraser ==
    [color |-> settings.color, filled |-> settings.filled,
     width |-> settings.width + 10, font |-> settings.font]

RECURSIVE drawAllStoredShapes(_, _)
drawAllStoredShapes(h, sh) ==
    IF sh = <<>> THEN <<>>
    ELSE (IF Head(sh) # null THEN <<render(h[Head(sh)])>> ELSE <<>>)
         \o drawAllStoredShapes(h, Tail(sh))

drawSelected(h, sel) ==
    IF sel # null THEN <<render(h[sel])>> ELSE <<>>

\* redraw that paints the element being drawn beneath the stored shapes.
redrawSelectedFirst(h, sh, sel) ==
    drawSelected(h, sel) \o drawAllStoredShapes(h, sh)

\* drawer.redraw(): the canvas is wiped, then painted from the given state.
redraw(h, sh, sel) == drawAllStoredShapes(h, sh) \o drawSelected(h, sel)

(***************************************************************************)
(* The object graph in canonical form.                                     *)
(***************************************************************************)
RECURSIVE FirstRefs(_, _)
FirstRefs(refs, seen) ==
    IF refs = <<>> THEN <<>>
    ELSE IF Head(refs) = null \/ Head(refs) \in seen
         THEN FirstRefs(Tail(refs), seen)
         ELSE <<Head(refs)>> \o FirstRefs(Tail(refs), seen \cup {Head(refs)})

RECURSIVE MapRefs(_, _)
MapRefs(refs, order) ==
    IF refs = <<>> THEN <<>>
    ELSE <<IF Head(refs) = null THEN null
           ELSE CHOOSE i \in 1..Len(order) : order[i] = Head(refs)>>
         \o MapRefs(Tail(refs), order)

RECURSIVE Collect(_, _)
Collect(h, order) ==
    IF order = <<>> THEN <<>>
    ELSE <<h[Head(order)]>> \o Collect(h, Tail(order))

Canon(h, sh, un, sel) ==
    LET order == FirstRefs(sh \o un \o <<sel>>, {})
    IN  [heap |-> Collect(h, order), shapes |-> MapRefs(sh, order),
         undoneShapes |-> MapRefs(un, order),
         selectedElement |-> MapRefs(<<sel>>, order)[1]]

\* The next state's object graph is (h, sh, un, sel).
Store(h, sh, un, sel) ==
    LET c == Canon(h, sh, un, sel)
    IN  /\ heap' = c.heap
        /\ shapes' = c.shapes
        /\ undoneShapes' = c.undoneShapes
        /\ selectedElement' = c.selectedElement

\* The history of a step: the handler that ran, whether it ended in an
\* uncaught exception and whether it called drawer.redraw().  Every handler
\* that redraws does so as its last statement, so what it painted is
\* redraw(heap, shapes, selectedElement) of the state it left; no handler
\* reads the pixels back.  spliced: the handler emptied, by
\* undoneShapes.splice(0, length), an undoneShapes that held something.
Ran(name, threw, redrew, spliced) ==
    event' = [name |-> name, threw |-> threw, redrew |-> redrew,
              spliced |-> spliced]

\* undoneShapes.splice(0, undoneShapes.length) discards something.
Splices == undoneShapes # <<>>


(***************************************************************************)
(* drawer.undo and drawer.redo on the two stacks d = [shapes, undoneShapes]*)
(***************************************************************************)
\* redo that takes the oldest undone shape, not the latest.
redoOldest(d) ==
    IF Len(d.undoneShapes) > 0
    THEN [shapes |-> Append(d.shapes, Head(d.undoneShapes)),
          undoneShapes |-> Tail(d.undoneShapes)]
    ELSE d

redo(d) ==
    IF Len(d.undoneShapes) > 0
    THEN [shapes |-> Append(d.shapes, Last(d.undoneShapes)),
          undoneShapes |-> Front(d.undoneShapes)]
    ELSE d

\* undo without its length test: pop() of an empty array is undefined, and
\* it is pushed.
undoUnguarded(d) ==
    [shapes |-> Front(d.shapes),
     undoneShapes |-> Append(d.undoneShapes,
                             IF Len(d.shapes) > 0 THEN Last(d.shapes) ELSE null)]

\* undo that drops the shape it pops.
undoDropping(d) ==
    IF Len(d.shapes) > 0
    THEN [shapes |-> Front(d.shapes), undoneShapes |-> d.undoneShapes]
    ELSE d

undo(d) ==
    IF Len(d.shapes) > 0
    THEN [shapes |-> Front(d.shapes),
          undoneShapes |-> Append(d.undoneShapes, Last(d.shapes))]
    ELSE d

RECURSIVE Times(_, _, _)
\* Op applied n times to d.
Times(Op(_), d, n) == IF n = 0 THEN d ELSE Times(Op, Op(d), n - 1)

Stacks == [shapes |-> shapes, undoneShapes |-> undoneShapes]

\* The stacks become d.
TimeTravel(d) == Store(heap, d.shapes, d.undoneShapes, selectedElement)

\* The model stops storing at MaxShapes entries in shapes, and at one more
\* for an element that is stored already.
Room(ref) ==
    \/ Len(shapes) < MaxShapes
    \/ /\ Len(shapes) = MaxShapes
       /\ ref # null
       /\ \E i \in 1..Len(shapes) : shapes[i] = ref

UiUnchanged ==
    UNCHANGED <<selectedShape, settings, filledData, activeLi, widthValue,
                fontValue, widthData, fontData>>

GraphUnchanged == UNCHANGED <<heap, shapes, undoneShapes, selectedElement>>

(***************************************************************************)
(* Mouse events on the canvas.                                             *)
(***************************************************************************)
\* The object the mousedown switch constructs for the active tool.
NewElement(tool, pos) ==
    CASE tool = availableShapes.RECTANGLE  -> Rectangle(pos, currentSettings, 0, 0)
      [] tool = availableShapes.OVAL       -> Oval(pos, currentSettings, 0, 0)
      [] tool = availableShapes.CIRCLE     -> Circle(pos, currentSettings, 0)
      [] tool = availableShapes.LINE       -> Line(pos, currentSettings, pos)
      [] tool = availableShapes.LINE_LIST  -> LineList(pos, currentSettings)
      [] tool = availableShapes.ERASE_LIST -> EraseList(pos, currentSettingsEraser)
      [] tool = availableShapes.DrawnText  -> DrawnText(pos, currentSettings)

Constructing ==
    {availableShapes.RECTANGLE, availableShapes.OVAL, availableShapes.CIRCLE,
     availableShapes.LINE, availableShapes.LINE_LIST,
     availableShapes.ERASE_LIST, availableShapes.DrawnText}

mousedown(pos) ==
    LET storeText == /\ selectedShape = availableShapes.DrawnText
                     /\ selectedElement # null
        sh == IF storeText THEN Append(shapes, selectedElement) ELSE shapes
        un == IF storeText THEN <<>> ELSE undoneShapes
    IN  /\ storeText => Len(shapes) < MaxShapes
        /\ IF selectedShape \in Constructing
           THEN Store(Append(heap, NewElement(selectedShape, pos)), sh, un,
                      Len(heap) + 1)
           ELSE GraphUnchanged
        /\ UiUnchanged
        /\ Ran("mousedown", FALSE, FALSE, storeText /\ Splices)

\* The model stops a stroke at MaxPoints points.
mousemove(pos) ==
    LET resizing == /\ selectedElement # null
                    /\ selectedShape # availableShapes.DrawnText
    IN  /\ IF resizing
           THEN /\ heap[selectedElement].cls \in {"LineList", "EraseList"}
                    => Len(heap[selectedElement].xList) < MaxPoints
                /\ heap' = [heap EXCEPT
                                ![selectedElement] = resize(@, pos.x, pos.y)]
                /\ UNCHANGED <<shapes, undoneShapes, selectedElement>>
           ELSE GraphUnchanged
        /\ UiUnchanged
        /\ Ran("mousemove", FALSE, resizing, FALSE)

\* mouseup that stores the element and leaves undoneShapes as it was.
mouseupKeepingUndone ==
    LET storing == /\ selectedElement # null
                   /\ selectedShape # availableShapes.DrawnText
    IN  /\ IF storing
           THEN /\ Len(shapes) < MaxShapes
                /\ Store(heap, Append(shapes, selectedElement), undoneShapes,
                         null)
           ELSE GraphUnchanged
        /\ UiUnchanged
        /\ Ran("mouseup", FALSE, FALSE, FALSE)

\* mouseup, were it to store the element whatever the tool.
mouseupAnyTool ==
    LET storing == selectedElement # null
    IN  /\ IF storing
           THEN /\ Len(shapes) < MaxShapes
                /\ Store(heap, Append(shapes, selectedElement), <<>>, null)
           ELSE GraphUnchanged
        /\ UiUnchanged
        /\ Ran("mouseup", FALSE, FALSE, storing /\ Splices)

mouseup ==
    LET storing == /\ selectedElement # null
                   /\ selectedShape # availableShapes.DrawnText
    IN  /\ IF storing
           THEN /\ Len(shapes) < MaxShapes
                /\ Store(heap, Append(shapes, selectedElement), <<>>, null)
           ELSE GraphUnchanged
        /\ UiUnchanged
        /\ Ran("mouseup", FALSE, FALSE, storing /\ Splices)

(***************************************************************************)
(* Key events on the document.                                             *)
(***************************************************************************)
\* The model stops a text at MaxChars characters.
textKeyPress(key) ==
    IF key = "Enter"
    THEN /\ Len(shapes) < MaxShapes
         /\ Store(heap, Append(shapes, selectedElement), <<>>, null)
    ELSE /\ (key # "Backspace" /\ Len(key) = 1)
                => Len(heap[selectedElement].chars) < MaxChars
         /\ heap' = [heap EXCEPT ![selectedElement] = DrawnTextResize(@, key)]
         /\ UNCHANGED <<shapes, undoneShapes, selectedElement>>

\* String.prototype.toUpperCase on the keys of this model.
toUpperCase(key) ==
    CASE key = "z" -> "Z"
      [] key = "i" -> "I"
      [] OTHER     -> key

\* The keypress handler, were it to test for the undo and redo combos first.
keypressComboFirst(evt) ==
    LET typing == /\ selectedShape = availableShapes.DrawnText
                  /\ selectedElement # null
        combo == toUpperCase(evt.key) = "Z" /\ evt.ctrlKey
        d == IF evt.shiftKey THEN redo(Stacks) ELSE undo(Stacks)
    IN  /\ IF combo THEN TimeTravel(d)
           ELSE IF typing THEN textKeyPress(evt.key)
           ELSE GraphUnchanged
        /\ UiUnchanged
        /\ Ran("keypress", FALSE,
               IF combo THEN d # Stacks ELSE typing /\ evt.key # "Enter",
               ~combo /\ typing /\ evt.key = "Enter" /\ Splices)

\* evt = [key, ctrlKey, shiftKey]
keypress(evt) ==
    LET typing == /\ selectedShape = availableShapes.DrawnText
                  /\ selectedElement # null
        combo == toUpperCase(evt.key) = "Z" /\ evt.ctrlKey
        d == IF evt.shiftKey THEN redo(Stacks) ELSE undo(Stacks)
    IN  /\ IF typing THEN textKeyPress(evt.key)
           ELSE IF combo THEN TimeTravel(d)
           ELSE GraphUnchanged
        /\ UiUnchanged
        /\ Ran("keypress", FALSE,
               IF typing THEN evt.key # "Enter" ELSE combo /\ d # Stacks,
               typing /\ evt.key = "Enter" /\ Splices)

keydown(key) ==
    LET erasing == /\ selectedShape = availableShapes.DrawnText
                   /\ selectedElement # null
                   /\ key = "Backspace"
    IN  /\ IF erasing
           THEN /\ heap' = [heap EXCEPT
                                ![selectedElement] = DrawnTextResize(@, key)]
                /\ UNCHANGED <<shapes, undoneShapes, selectedElement>>
           ELSE GraphUnchanged
        /\ UiUnchanged
        /\ Ran("keydown", FALSE, erasing, FALSE)

(***************************************************************************)
(* Click events of the navigation bar.                                     *)
(***************************************************************************)
btnUndoClick ==
    /\ TimeTravel(undo(Stacks))
    /\ UiUnchanged
    /\ Ran("undo", FALSE, undo(Stacks) # Stacks, FALSE)

btnRedoClick ==
    /\ TimeTravel(redo(Stacks))
    /\ UiUnchanged
    /\ Ran("redo", FALSE, redo(Stacks) # Stacks, FALSE)

\* The first #shape-list item, in document order, that carries class active.
FirstActive ==
    ShapeList[CHOOSE i \in 1..Len(ShapeList) :
                  /\ ShapeList[i] \in activeLi
                  /\ \A j \in 1..(i - 1) : ShapeList[j] \notin activeLi]

Toggle(set, x) == IF x \in set THEN set \ {x} ELSE set \cup {x}

\* Click on the #shape-list item whose data-shape is clickedShape.  When the
\* tool changes and no item carries class active, the lookup of
\* li.active[0].classList throws after the drawer has been updated.
\* The shape-list click handler without its reset of settings.filled.
shapeListClickKeepingFill(clickedShape) ==
    LET text == clickedShape = availableShapes.DrawnText
        changed == clickedShape # selectedShape
        sh == IF text THEN Append(shapes, selectedElement) ELSE shapes
        un == IF text THEN <<>> ELSE undoneShapes
    IN  /\ text => Room(selectedElement)
        /\ settings' = [settings EXCEPT
                            !.filled = IF text THEN TRUE ELSE settings.filled]
        /\ Store(heap, sh, un, IF changed THEN null ELSE selectedElement)
        /\ selectedShape' = IF changed THEN clickedShape ELSE selectedShape
        /\ activeLi' = IF changed /\ activeLi # {}
                       THEN Toggle(activeLi \ {FirstActive}, clickedShape)
                       ELSE activeLi
        /\ UNCHANGED <<filledData, widthValue, fontValue, widthData, fontData>>
        /\ Ran("select", changed /\ activeLi = {}, FALSE, text /\ Splices)

shapeListClick(clickedShape) ==
    LET text == clickedShape = availableShapes.DrawnText
        changed == clickedShape # selectedShape
        f1 == IF filledData = "no" THEN FALSE ELSE settings.filled
        sh == IF text THEN Append(shapes, selectedElement) ELSE shapes
        un == IF text THEN <<>> ELSE undoneShapes
    IN  /\ text => Room(selectedElement)
        /\ settings' = [settings EXCEPT !.filled = IF text THEN TRUE ELSE f1]
        /\ Store(heap, sh, un, IF changed THEN null ELSE selectedElement)
        /\ selectedShape' = IF changed THEN clickedShape ELSE selectedShape
        /\ activeLi' = IF changed /\ activeLi # {}
                       THEN Toggle(activeLi \ {FirstActive}, clickedShape)
                       ELSE activeLi
        /\ UNCHANGED <<filledData, widthValue, fontValue, widthData, fontData>>
        /\ Ran("select", changed /\ activeLi = {}, FALSE, text /\ Splices)

fillToggleClick ==
    /\ filledData' = IF filledData = "no" THEN "yes" ELSE "no"
    /\ settings' = [settings EXCEPT !.filled = (filledData = "no")]
    /\ GraphUnchanged
    /\ UNCHANGED <<selectedShape, activeLi, widthValue, fontValue, widthData,
                   fontData>>
    /\ Ran("fill", FALSE, FALSE, FALSE)

\* The colour picker, were every shape to hold drawer.settings itself and
\* not a copy of its values.
colorPickerChangeShared(value) ==
    /\ settings' = [settings EXCEPT !.color = value]
    /\ heap' = [i \in 1..Len(heap) |->
                   [heap[i] EXCEPT !.settings = [@ EXCEPT !.color = value]]]
    /\ UNCHANGED <<shapes, undoneShapes, selectedElement>>
    /\ UNCHANGED <<selectedShape, filledData, activeLi, widthValue, fontValue,
                   widthData, fontData>>
    /\ Ran("color", FALSE, FALSE, FALSE)

colorPickerChange(value) ==
    /\ settings' = [settings EXCEPT !.color = value]
    /\ GraphUnchanged
    /\ UNCHANGED <<selectedShape, filledData, activeLi, widthValue, fontValue,
                   widthData, fontData>>
    /\ Ran("color", FALSE, FALSE, FALSE)

(***************************************************************************)
(* The size dialog.  The model lets the dialog's two numbers range over    *)
(* WidthValues and FontValues.                                             *)
(***************************************************************************)
WidthValues == {1, 2, 5, 6, 65, 66, 69, 70}

FontValues == {6, 8, 12, 16, 64, 66, 68, 70}

DialogFrame ==
    /\ GraphUnchanged
    /\ UNCHANGED <<selectedShape, filledData, activeLi>>

\* The width's decrease handler without its minimum of 1.
widthDecreaseClickUnclamped ==
    /\ widthValue - 4 \in WidthValues \cup {-3, -2}
    /\ widthValue' = widthValue - 4
    /\ UNCHANGED <<settings, fontValue, widthData, fontData>>
    /\ DialogFrame
    /\ Ran("widthDecrease", FALSE, FALSE, FALSE)

widthDecreaseClick ==
    /\ Max(1, widthValue - 4) \in WidthValues
    /\ widthValue' = Max(1, widthValue - 4)
    /\ UNCHANGED <<settings, fontValue, widthData, fontData>>
    /\ DialogFrame
    /\ Ran("widthDecrease", FALSE, FALSE, FALSE)

widthIncreaseClick ==
    /\ Min(70, widthValue + 4) \in WidthValues
    /\ widthValue' = Min(70, widthValue + 4)
    /\ UNCHANGED <<settings, fontValue, widthData, fontData>>
    /\ DialogFrame
    /\ Ran("widthIncrease", FALSE, FALSE, FALSE)

fontDecreaseClick ==
    /\ Max(6, fontValue - 4) \in FontValues
    /\ fontValue' = Max(6, fontValue - 4)
    /\ UNCHANGED <<settings, widthValue, widthData, fontData>>
    /\ DialogFrame
    /\ Ran("fontDecrease", FALSE, FALSE, FALSE)

fontIncreaseClick ==
    /\ Min(70, fontValue + 4) \in FontValues
    /\ fontValue' = Min(70, fontValue + 4)
    /\ UNCHANGED <<settings, widthValue, widthData, fontData>>
    /\ DialogFrame
    /\ Ran("fontIncrease", FALSE, FALSE, FALSE)

sizeAbortClick ==
    /\ widthValue' = widthData
    /\ fontValue' = fontData
    /\ UNCHANGED <<settings, widthData, fontData>>
    /\ DialogFrame
    /\ Ran("sizeAbort", FALSE, FALSE, FALSE)

\* drawer.settings.font is "<size>pt <family>": the confirm handler keeps the
\* second word and replaces the first by the dialog's text.
sizeConfirmClick ==
    /\ widthData' = widthValue
    /\ fontData' = fontValue
    /\ settings' = [settings EXCEPT !.width = widthValue,
                                    !.font = [size |-> fontValue,
                                              family |-> settings.font.family]]
    /\ UNCHANGED <<widthValue, fontValue>>
    /\ DialogFrame
    /\ Ran("sizeConfirm", FALSE, FALSE, FALSE)


(***************************************************************************)
(* File IO.  A JSON object is a record; the JSON value null is JsonNull.   *)
(* JSON.stringify writes an object's own properties and JSON.parse reads   *)
(* them back: numbers, strings, booleans and arrays come back as they      *)
(* were, the class does not.                                               *)
(***************************************************************************)
JsonNull == [isNull |-> TRUE]

IsNull(json) == "isNull" \in DOMAIN json

\* JSON.parse(JSON.stringify(o)) with the type property added.
toJson(o) ==
    CASE o.cls = "Rectangle" ->
             [type |-> o.cls, position |-> o.position, settings |-> o.settings,
              width |-> o.width, height |-> o.height]
      [] o.cls \in {"Oval", "Circle"} ->
             [type |-> o.cls, position |-> o.position, settings |-> o.settings,
              xRadius |-> o.xRadius, yRadius |-> o.yRadius, x |-> o.x, y |-> o.y]
      [] o.cls = "Line" ->
             [type |-> o.cls, position |-> o.position, settings |-> o.settings,
              endPosition |-> o.endPosition]
      [] o.cls \in {"LineList", "EraseList"} ->
             [type |-> o.cls, position |-> o.position, settings |-> o.settings,
              xList |-> o.xList, yList |-> o.yList]
      [] o.cls = "DrawnText" ->
             [type |-> o.cls, position |-> o.position, settings |-> o.settings,
              chars |-> o.chars]

\* createJsonBlob over the references sh: the array written to the file, or
\* threw when an element is null (tmp["type"] = null.__proto__... throws).
RECURSIVE createJsonBlob(_, _)
createJsonBlob(h, sh) ==
    IF sh = <<>> THEN [threw |-> FALSE, lst |-> <<>>]
    ELSE IF Head(sh) = null THEN [threw |-> TRUE, lst |-> <<>>]
    ELSE LET rest == createJsonBlob(h, Tail(sh))
         IN  [threw |-> rest.threw,
              lst |-> IF rest.threw THEN <<>>
                      ELSE <<toJson(h[Head(sh)])>> \o rest.lst]

RECURSIVE ReplayPoints(_, _, _, _)
ReplayPoints(o, xList, yList, j) ==
    IF j > Len(xList) THEN o
    ELSE ReplayPoints(resize(o, xList[j], yList[j]), xList, yList, j + 1)

RECURSIVE ReplayChars(_, _, _)
ReplayChars(o, chars, j) ==
    IF j > Len(chars) THEN o
    ELSE ReplayChars(DrawnTextResize(o, chars[j]), chars, j + 1)

Push(d, o) ==
    [d EXCEPT !.heap = Append(@, o), !.shapes = Append(@, Len(d.heap) + 1)]

Throw(d) == [d EXCEPT !.threw = TRUE]

\* createShapeFromJson on d = [heap, shapes, threw]: the switch on
\* jsonShape.type, which has no default case.  Reading a property of null,
\* or the length of a missing xList or chars, throws a TypeError.
createShapeFromJson(d, jsonShape) ==
    IF IsNull(jsonShape) THEN Throw(d)
    ELSE IF "type" \notin DOMAIN jsonShape THEN d
    ELSE CASE jsonShape.type = "Rectangle" ->
                  Push(d, Rectangle(jsonShape.position, jsonShape.settings,
                                    jsonShape.width, jsonShape.height))
           [] jsonShape.type = "Oval" ->
                  Push(d, Oval(jsonShape.position, jsonShape.settings,
                               jsonShape.xRadius, jsonShape.yRadius))
           [] jsonShape.type = "Circle" ->
                  Push(d, Circle(jsonShape.position, jsonShape.settings,
                                 jsonShape.xRadius))
           [] jsonShape.type = "Line" ->
                  Push(d, Line(jsonShape.position, jsonShape.settings,
                               jsonShape.endPosition))
           [] jsonShape.type = "LineList" ->
                  IF "xList" \notin DOMAIN jsonShape THEN Throw(d)
                  ELSE IF Len(jsonShape.xList) > 0 /\ "yList" \notin DOMAIN jsonShape
                       THEN Throw(d)
                  ELSE Push(d, ReplayPoints(
                                   LineList(jsonShape.position, jsonShape.settings),
                                   jsonShape.xList, jsonShape.yList, 1))
           [] jsonShape.type = "EraseList" ->
                  IF "xList" \notin DOMAIN jsonShape THEN Throw(d)
                  ELSE IF Len(jsonShape.xList) > 0 /\ "yList" \notin DOMAIN jsonShape
                       THEN Throw(d)
                  ELSE Push(d, ReplayPoints(
                                   EraseList(jsonShape.position, jsonShape.settings),
                                   jsonShape.xList, jsonShape.yList, 1))
           [] jsonShape.type = "DrawnText" ->
                  IF "chars" \notin DOMAIN jsonShape THEN Throw(d)
                  ELSE Push(d, ReplayChars(
                                   DrawnText(jsonShape.position, jsonShape.settings),
                                   jsonShape.chars, 1))
           [] OTHER -> d

\* The loop, were it to end at the first record whose type is none of the
\* seven.
RECURSIVE LoadFromUntilUnknown(_, _, _)
LoadFromUntilUnknown(d, tmpList, i) ==
    IF i > Len(tmpList) \/ d.threw THEN d
    ELSE IF /\ ~IsNull(tmpList[i])
            /\ "type" \in DOMAIN tmpList[i] =>
                   tmpList[i].type \notin {"Rectangle", "Oval", "Circle", "Line",
                                           "LineList", "EraseList", "DrawnText"}
         THEN d
         ELSE LoadFromUntilUnknown(createShapeFromJson(d, tmpList[i]), tmpList,
                                   i + 1)

\* The for loop of constructShapesFromFile from record i on: an exception
\* leaves the loop and the handler.
RECURSIVE LoadFrom(_, _, _)
LoadFrom(d, tmpList, i) ==
    IF i > Len(tmpList) \/ d.threw THEN d
    ELSE LoadFrom(createShapeFromJson(d, tmpList[i]), tmpList, i + 1)

\* The load event, were it to skip the three resets and append to what the
\* drawer holds.
constructShapesFromFileAppending(file) ==
    LET d == LoadFrom([heap |-> heap, shapes |-> shapes, threw |-> FALSE],
                      file.list, 1)
    IN  /\ IF ~file.parses
           THEN GraphUnchanged
           ELSE Store(d.heap, d.shapes, undoneShapes, selectedElement)
        /\ UiUnchanged
        /\ Ran("load", ~file.parses \/ d.threw, file.parses /\ ~d.threw, FALSE)

\* The FileReader's load event.  file = [parses, list]: whether JSON.parse
\* accepts the contents, and the array it returns.
\* constructShapesFromFile that resets the drawer before it parses.
constructShapesFromFileResetFirst(file) ==
    LET d == LoadFrom([heap |-> <<>>, shapes |-> <<>>, threw |-> FALSE],
                      file.list, 1)
    IN  /\ IF ~file.parses
           THEN Store(heap, <<>>, <<>>, null)
           ELSE /\ heap' = d.heap
                /\ shapes' = d.shapes
                /\ undoneShapes' = <<>>
                /\ selectedElement' = null
        /\ UiUnchanged
        /\ Ran("load", ~file.parses \/ d.threw, file.parses /\ ~d.threw,
               file.parses /\ Splices)

constructShapesFromFile(file) ==
    LET d == LoadFrom([heap |-> <<>>, shapes |-> <<>>, threw |-> FALSE],
                      file.list, 1)
    IN  /\ IF ~file.parses
           THEN GraphUnchanged
           ELSE /\ heap' = d.heap
                /\ shapes' = d.shapes
                /\ undoneShapes' = <<>>
                /\ selectedElement' = null
        /\ UiUnchanged
        /\ Ran("load", ~file.parses \/ d.threw, file.parses /\ ~d.threw,
               file.parses /\ Splices)

\* Click on #img-save: the blob is handed to the browser as a download.
saveAsJsonFile ==
    /\ GraphUnchanged
    /\ UiUnchanged
    /\ Ran("save", createJsonBlob(heap, shapes).threw, FALSE, FALSE)

\* The clear button, were it to put the shapes on undoneShapes as undo does.
imgClearClickUndoable ==
    /\ Store(heap, <<>>, Times(undo, Stacks, Len(shapes)).undoneShapes, null)
    /\ UiUnchanged
    /\ Ran("clear", FALSE, TRUE, FALSE)

imgClearClick ==
    /\ Store(heap, <<>>, <<>>, null)
    /\ UiUnchanged
    /\ Ran("clear", FALSE, TRUE, Splices)

(***************************************************************************)
(* The environment of a run.                                               *)
(***************************************************************************)
Black == [color |-> "#000000", filled |-> FALSE, width |-> 10,
          font |-> [size |-> 36, family |-> "sans-serif"]]

Red == [color |-> "#ff0000", filled |-> TRUE, width |-> 5,
        font |-> [size |-> 12, family |-> "sans-serif"]]

Wide == [Black EXCEPT !.width = 20]

JsonRectangle ==
    [type |-> "Rectangle", position |-> Point(10, 10), settings |-> Black,
     width |-> 40, height |-> 30]

JsonOval ==
    [type |-> "Oval", position |-> Point(2, 4), settings |-> Red,
     xRadius |-> 2, yRadius |-> 1, x |-> 6, y |-> 6]

JsonCircle ==
    [type |-> "Circle", position |-> Point(2, 4), settings |-> Black,
     xRadius |-> 2, yRadius |-> 2, x |-> 6, y |-> 6]

JsonLine ==
    [type |-> "Line", position |-> Point(0, 0), settings |-> Red,
     endPosition |-> Point(6, 2)]

JsonLineList ==
    [type |-> "LineList", position |-> Point(0, 0), settings |-> Black,
     xList |-> <<2, 6>>, yList |-> <<4, 0>>]

JsonEraseList ==
    [type |-> "EraseList", position |-> Point(0, 0), settings |-> Wide,
     xList |-> <<6, 2>>, yList |-> <<0, 4>>]

JsonDrawnText ==
    [type |-> "DrawnText", position |-> Point(4, 4), settings |-> Red,
     chars |-> <<"H", "i">>]

JsonTriangle == [type |-> "Triangle", position |-> Point(0, 0), settings |-> Black]

JsonNoType == [position |-> Point(0, 0), settings |-> Black]

JsonLineListNoXList ==
    [type |-> "LineList", position |-> Point(0, 0), settings |-> Black]

JsonDrawnTextNoChars ==
    [type |-> "DrawnText", position |-> Point(0, 0), settings |-> Black]

Parsed(list) == [parses |-> TRUE, list |-> list]

NotJson == [parses |-> FALSE, list |-> <<>>]

Files ==
    {NotJson,
     Parsed(<<JsonRectangle, JsonOval, JsonCircle, JsonLine>>),
     Parsed(<<JsonLineList, JsonEraseList, JsonDrawnText>>),
     Parsed(<<JsonRectangle, JsonTriangle, JsonNoType, JsonDrawnText>>),
     Parsed(<<JsonRectangle, JsonNull, JsonLine>>),
     Parsed(<<JsonLineListNoXList, JsonRectangle>>),
     Parsed(<<JsonOval, JsonDrawnTextNoChars, JsonRectangle>>)}

Key(key, ctrlKey, shiftKey) ==
    [key |-> key, ctrlKey |-> ctrlKey, shiftKey |-> shiftKey]

\* A file saved from a drawing.
Drawings == {Parsed(<<JsonLineList, JsonEraseList, JsonDrawnText>>)}

\* What the user does in a run of Spec.
Items == {"oval", "text"}

DownPos == {Point(2, 4)}

MovePos == {Point(6, 6)}

PressKeys ==
    {Key("H", FALSE, FALSE), Key("Enter", FALSE, FALSE), Key("z", TRUE, FALSE),
     Key("Z", TRUE, TRUE)}

DownKeys == {"Backspace"}

\* The state the script leaves when it has run, but for the active tool:
\* the drawer literal, the attributes of the markup it installs, an
\* untouched canvas.  No #shape-list item carries class active: the lineList
\* item's markup has two class attributes and the HTML parser keeps the
\* first.
InitAt(tool) ==
    /\ heap = <<>>
    /\ shapes = <<>>
    /\ undoneShapes = <<>>
    /\ selectedShape = tool
    /\ selectedElement = null
    /\ settings = [color |-> "#000000", filled |-> FALSE, width |-> 10,
                   font |-> [size |-> 36, family |-> "sans-serif"]]
    /\ filledData = "no"
    /\ activeLi = {}
    /\ widthValue = 1
    /\ fontValue = 12
    /\ widthData = 1
    /\ fontData = 12
    /\ event = [name |-> "init", threw |-> FALSE, redrew |-> FALSE,
                spliced |-> FALSE]

Init == InitAt(availableShapes.LINE_LIST)

ToolClick(items) ==
    \E i \in 1..Len(ShapeList) :
        ShapeList[i] \in items /\ shapeListClick(ShapeList[i])

\* The drawing surface: the canvas, the keyboard, undo and redo, the tool
\* list, and the file buttons with a saved drawing to load.
Next ==
    \/ \E pos \in DownPos : mousedown(pos)
    \/ \E pos \in MovePos : mousemove(pos)
    \/ mouseup
    \/ \E evt \in PressKeys : keypress(evt)
    \/ \E key \in DownKeys : keydown(key)
    \/ btnUndoClick
    \/ btnRedoClick
    \/ ToolClick(Items)
    \/ saveAsJsonFile
    \/ \E file \in Drawings : constructShapesFromFile(file)
    \/ imgClearClick

Spec == Init /\ [][Next]_vars

(***************************************************************************)
(* The file buttons: strokes are drawn, stored, undone and redone between  *)
(* saves, clears and loads of every file of Files.                         *)
(***************************************************************************)
NextFiles ==
    \/ \E pos \in DownPos : mousedown(pos)
    \/ \E pos \in MovePos : mousemove(pos)
    \/ mouseup
    \/ btnUndoClick
    \/ btnRedoClick
    \/ saveAsJsonFile
    \/ \E file \in Files : constructShapesFromFile(file)
    \/ imgClearClick

SpecFiles == Init /\ [][NextFiles]_vars

(***************************************************************************)
(* The settings controls: a stroke is begun, stored and undone while the   *)
(* fill toggle, the colour picker and the size dialog change the ambient   *)
(* settings.                                                               *)
(***************************************************************************)
Colors == {"#ff0000"}

NextSettings ==
    \/ \E pos \in DownPos : mousedown(pos)
    \/ mouseup
    \/ btnUndoClick
    \/ fillToggleClick
    \/ \E value \in Colors : colorPickerChange(value)
    \/ widthIncreaseClick
    \/ fontIncreaseClick
    \/ sizeConfirmClick

SpecSettings == Init /\ [][NextSettings]_vars

(***************************************************************************)
(* The mousedown switch under every value of drawer.availableShapes.  The  *)
(* tool list has no item for eraseList or move, so the script's own        *)
(* handlers never make them the active tool; here the active tool is an    *)
(* input of the switch and is chosen when the run starts.                  *)
(***************************************************************************)
Tools == Constructing \cup {availableShapes.MOVE}

InitTools == \E tool \in Tools : InitAt(tool)

NextTools ==
    \/ \E pos \in DownPos : mousedown(pos)
    \/ \E pos \in MovePos : mousemove(pos)
    \/ mouseup
    \/ widthIncreaseClick
    \/ sizeConfirmClick

SpecTools == InitTools /\ [][NextTools]_vars

(***************************************************************************)
(* Steps of the handlers, as the properties below name them.               *)
(***************************************************************************)
Typing ==
    selectedShape = availableShapes.DrawnText /\ selectedElement # null

\* The step is one of the handler that Ran names.
By(name) == event'.name = name

\* A handler stores the element being drawn, or a file is loaded.
Commits ==
    \/ /\ By("mouseup")
       /\ selectedElement # null
       /\ selectedShape # availableShapes.DrawnText
       /\ mouseup
    \/ By("keypress") /\ Typing /\ keypress(Key("Enter", FALSE, FALSE))
    \/ By("mousedown") /\ Typing /\ \E pos \in DownPos : mousedown(pos)
    \/ By("select") /\ shapeListClick(availableShapes.DrawnText)
    \/ /\ By("load")
       /\ \E file \in Drawings : file.parses /\ constructShapesFromFile(file)

Undoes ==
    \/ By("undo") /\ btnUndoClick
    \/ By("keypress") /\ ~Typing /\ keypress(Key("z", TRUE, FALSE))

Redoes ==
    \/ By("redo") /\ btnRedoClick
    \/ By("keypress") /\ ~Typing /\ keypress(Key("Z", TRUE, TRUE))

\* The objects a list of references stands for; NoObject for null.
NoObject == [none |-> TRUE]

Objects(h, refs) ==
    [i \in 1..Len(refs) |-> IF refs[i] = null THEN NoObject ELSE h[refs[i]]]

SettingsOf(h, refs) ==
    [i \in 1..Len(refs) |->
        IF refs[i] = null THEN NoObject ELSE h[refs[i]].settings]

\* The shapes a list of records decodes to, and whether decoding threw.
decode(list) ==
    LoadFrom([heap |-> <<>>, shapes |-> <<>>, threw |-> FALSE], list, 1)

KnownTypes ==
    {"Rectangle", "Oval", "Circle", "Line", "LineList", "EraseList",
     "DrawnText"}

\* A record that createShapeFromJson cannot read: null, a stroke without
\* xList, a text without chars.
Malformed(json) ==
    \/ IsNull(json)
    \/ /\ "type" \in DOMAIN json
       /\ \/ json.type \in {"LineList", "EraseList"} /\ "xList" \notin DOMAIN json
          \/ json.type = "DrawnText" /\ "chars" \notin DOMAIN json

\* A record with no type, or a type that is none of the seven classes.
Untagged(json) ==
    /\ ~IsNull(json)
    /\ "type" \in DOMAIN json => json.type \notin KnownTypes

WellFormed(json) == ~Malformed(json) /\ ~Untagged(json)

All(P(_), list) == \A i \in 1..Len(list) : P(list[i])

Some(P(_), list) == \E i \in 1..Len(list) : P(list[i])

TypesOf(list) == [i \in 1..Len(list) |-> list[i].type]

ClassesOf(h, refs) ==
    [i \in 1..Len(refs) |-> IF refs[i] = null THEN "null" ELSE h[refs[i]].cls]

(***************************************************************************)
(* Undo and redo.                                                          *)
(***************************************************************************)
\* C1: every step that stores a shape (mouseup on a shape being drawn,
\* Enter on a text being typed, even an empty one, mousedown or a click on
\* the text tool while a text is typed) and every load of a file that parses
\* leaves undoneShapes empty; and a redo that finds undoneShapes empty, as
\* the redo of undo; commit; redo does, leaves shapes as it was.
C1_CommitEmptiesUndone ==
    [][/\ Commits => undoneShapes' = <<>>
       /\ (undoneShapes = <<>> /\ Redoes) =>
              Objects(heap', shapes') = Objects(heap, shapes)]_vars

\* A shape has just been stored by mouseup, and the store discarded what an
\* earlier undo had put on undoneShapes.
C1_Witness ==
    /\ event.name = "mouseup"
    /\ event.spliced
    /\ shapes # <<>>
    /\ undoneShapes = <<>>

\* C2: in every state whose undoneShapes is empty (the state N commits in a
\* row leave), undo taken N = Len(shapes) times and redo then taken N times
\* gives back the same shapes in the same order, and an empty undoneShapes.
C2_UndoAllRedoAll ==
    undoneShapes = <<>> =>
        LET n == Len(shapes)
        IN  /\ Times(undo, Stacks, n) =
                   [shapes |-> <<>>,
                    undoneShapes |-> [i \in 1..n |-> shapes[n + 1 - i]]]
            /\ Times(redo, Times(undo, Stacks, n), n) = Stacks

\* redo has just put back the last of several shapes.
C2_Witness ==
    /\ event.name = "redo"
    /\ event.redrew
    /\ undoneShapes = <<>>
    /\ Len(shapes) >= 3

\* C3: undo (button or ctrl+z) when shapes is empty, and redo (button or
\* ctrl+shift+Z) when undoneShapes is empty, change nothing of the drawer
\* or the page, throw nothing and do not redraw.
C3_NoOpAtTheEnds ==
    [][((shapes = <<>> /\ Undoes) \/ (undoneShapes = <<>> /\ Redoes)) =>
           /\ UNCHANGED progVars
           /\ ~event'.threw
           /\ ~event'.redrew]_vars

\* The undo button was clicked with nothing to undo, with shapes waiting on
\* undoneShapes and an element being drawn.
C3_Witness ==
    /\ event.name = "undo"
    /\ ~event.redrew
    /\ shapes = <<>>
    /\ undoneShapes # <<>>
    /\ selectedElement # null

(***************************************************************************)
(* Saving and loading.                                                     *)
(***************************************************************************)
\* C4: every stored shape, written by createJsonBlob as a file of one
\* record and read back by createShapeFromJson, comes back as one shape of
\* the same class with the same fields: position, settings, width and
\* height, radii and second point, end point, points and characters in
\* their order.
C4_RoundTrip ==
    \A i \in 1..Len(shapes) :
        shapes[i] # null =>
            LET blob == createJsonBlob(heap, <<shapes[i]>>)
                back == decode(blob.lst)
            IN  /\ ~blob.threw
                /\ ~back.threw
                /\ back.heap = <<heap[shapes[i]]>>

\* C5: a click on a tool-list item (another tool, or the text tool again)
\* while a text is being typed appends that text, with the characters it
\* has, to shapes.
C5_TextStoredOnSelect ==
    [][\A i \in 1..Len(ShapeList) :
           (Typing /\ shapeListClick(ShapeList[i])) =>
               /\ Len(shapes') = Len(shapes) + 1
               /\ Objects(heap', shapes')[Len(shapes')] = heap[selectedElement]]_vars

\* C8: the load of a file that parses to records which all carry one of the
\* seven types and that type's fields leaves no element being drawn, an
\* empty undoneShapes, and in shapes exactly the records' shapes: as many
\* new objects as records, the i-th of the i-th record's class, and none of
\* the objects shapes held before.
C8_LoadReplaces ==
    [][\A file \in Files :
           (/\ By("load")
            /\ file.parses
            /\ All(WellFormed, file.list)
            /\ constructShapesFromFile(file)) =>
               /\ selectedElement' = null
               /\ undoneShapes' = <<>>
               /\ Len(heap') = Len(file.list)
               /\ shapes' = [i \in 1..Len(file.list) |-> i]
               /\ ClassesOf(heap', shapes') = TypesOf(file.list)
               /\ heap' = decode(file.list).heap]_vars

\* A file of four well-formed records has just been loaded.
C8_Witness ==
    /\ event.name = "load"
    /\ ~event.threw
    /\ ClassesOf(heap, shapes) = <<"Rectangle", "Oval", "Circle", "Line">>
    /\ undoneShapes = <<>>
    /\ selectedElement = null

\* The shape one well-formed record decodes to.
ShapeOf(json) == decode(<<json>>).heap[1]

\* C9: in the load of a file whose records are well-formed but for some with
\* no type or an unknown one, those records are passed over and the load
\* goes on: shapes holds the shapes of the records with a known type, all of
\* them, in the file's order, and the handler ends with its redraw.
C9_UntaggedSkipped ==
    [][\A file \in Files :
           (/\ By("load")
            /\ file.parses
            /\ Some(Untagged, file.list)
            /\ All(LAMBDA r : ~Malformed(r), file.list)
            /\ constructShapesFromFile(file)) =>
               LET known == SelectSeq(file.list, WellFormed)
               IN  /\ Objects(heap', shapes') =
                          [i \in 1..Len(known) |-> ShapeOf(known[i])]
                   /\ ~event'.threw
                   /\ event'.redrew]_vars

\* The file with an unknown and a missing type between a rectangle and a
\* text has just been loaded.
C9_Witness ==
    /\ event.name = "load"
    /\ event.redrew
    /\ ClassesOf(heap, shapes) = <<"Rectangle", "DrawnText">>

\* C10: in the load of a file that parses and holds a malformed record (a
\* null, a LineList or EraseList without xList, a DrawnText without chars),
\* that record is passed over: shapes holds the shapes of all the
\* well-formed records, those after it too, and the handler ends with its
\* redraw.
C10_MalformedSkipped ==
    [][\A file \in Files :
           (/\ By("load")
            /\ file.parses
            /\ Some(Malformed, file.list)
            /\ constructShapesFromFile(file)) =>
               LET known == SelectSeq(file.list, WellFormed)
               IN  /\ Objects(heap', shapes') =
                          [i \in 1..Len(known) |-> ShapeOf(known[i])]
                   /\ event'.redrew]_vars

(***************************************************************************)
(* The settings of a shape.                                                *)
(***************************************************************************)
\* C6: a shape takes the values of the ambient settings when mousedown
\* begins it, and a later step that changes the ambient colour, fill flag,
\* width or font changes the settings of no shape in shapes, in
\* undoneShapes or being drawn.
C6_SettingsAreSnapshots ==
    [][/\ settings' # settings =>
              /\ SettingsOf(heap', shapes') = SettingsOf(heap, shapes)
              /\ SettingsOf(heap', undoneShapes') =
                     SettingsOf(heap, undoneShapes)
              /\ SettingsOf(heap', <<selectedElement'>>) =
                     SettingsOf(heap, <<selectedElement>>)
       /\ (\E pos \in DownPos : mousedown(pos)) =>
              heap'[selectedElement'].settings = settings]_vars

\* The colour picker has just changed the ambient colour while a stroke is
\* being drawn and another waits on undoneShapes, both begun in the colour
\* before.
C6_Witness ==
    /\ event.name = "color"
    /\ selectedElement # null
    /\ undoneShapes # <<>>
    /\ heap[selectedElement].settings.color # settings.color
    /\ heap[undoneShapes[1]].settings.color # settings.color

\* C7: the element mousedown has just begun has the ambient colour, fill
\* flag and font, and the ambient width, but for an EraseList, whose width
\* is the ambient width plus ten.
C7_EraserTenWider ==
    (event.name = "mousedown" /\ selectedElement # null) =>
        heap[selectedElement].settings =
            [settings EXCEPT
                !.width = IF heap[selectedElement].cls = "EraseList"
                          THEN @ + 10 ELSE @]

\* An EraseList has just been begun at the ambient width 10 and has width
\* 20.
C7_Witness ==
    /\ event.name = "mousedown"
    /\ selectedElement # null
    /\ heap[selectedElement].cls = "EraseList"
    /\ settings.width = 10
    /\ heap[selectedElement].settings.width = 20

(***************************************************************************)
(* Clearing.                                                               *)
(***************************************************************************)
\* C11: when the clear button's handler has run, shapes and undoneShapes are
\* empty and no element is being drawn, and undo and redo, taken in any
\* order and number from there, leave both empty: what was cleared is on
\* neither stack.
C11_ClearIsFinal ==
    event.name = "clear" =>
        /\ shapes = <<>>
        /\ undoneShapes = <<>>
        /\ selectedElement = null
        /\ \A m, n \in 0..2 :
               /\ Times(redo, Times(undo, Stacks, m), n) = Stacks
               /\ Times(undo, Times(redo, Stacks, m), n) = Stacks

\* The clear button has just discarded shapes that an undo had put on
\* undoneShapes.
C11_Witness ==
    /\ event.name = "clear"
    /\ event.spliced
    /\ event.redrew

(***************************************************************************)
(* The keyboard.                                                           *)
(***************************************************************************)
Combos == {Key("z", TRUE, FALSE), Key("Z", TRUE, TRUE)}

\* C12: a keypress of ctrl+z does what drawer.undo does and one of
\* ctrl+shift+Z what drawer.redo does, under every tool, but when the tool is
\* text and a text is being typed: then shapes and undoneShapes stay as they
\* are, holding the objects they held in the order they held them, and the
\* key is added to the text.
C12_CombosButWhileTyping ==
    [][\A evt \in Combos \cap PressKeys :
           (By("keypress") /\ keypress(evt)) =>
               IF Typing
               THEN /\ UNCHANGED <<shapes, undoneShapes, selectedElement>>
                    /\ heap'[selectedElement'].chars =
                           Append(heap[selectedElement].chars, evt.key)
               ELSE LET d == IF evt.shiftKey THEN redo(Stacks)
                             ELSE undo(Stacks)
                    IN  /\ Objects(heap', shapes') = Objects(heap, d.shapes)
                        /\ Objects(heap', undoneShapes') =
                               Objects(heap, d.undoneShapes)]_vars

\* ctrl+z has just been pressed while a text was being typed, with a shape
\* stored that an undo would have taken: the text holds "z" and the shape is
\* still stored.
C12_Witness ==
    /\ event.name = "keypress"
    /\ Typing
    /\ heap[selectedElement].chars = <<"z">>
    /\ shapes # <<>>

(***************************************************************************)
(* What the stacks hold.                                                   *)
(***************************************************************************)
\* C13: in every reachable state createJsonBlob returns, without throwing,
\* one record for each element of shapes, in order, whose type is the
\* element's class, one of the seven.
C13_EncodeSucceeds ==
    LET blob == createJsonBlob(heap, shapes)
    IN  /\ ~blob.threw
        /\ Len(blob.lst) = Len(shapes)
        /\ \A i \in 1..Len(shapes) :
               /\ blob.lst[i].type \in KnownTypes
               /\ blob.lst[i].type = heap[shapes[i]].cls

\* C14: in every reachable state no element of shapes or of undoneShapes is
\* null.
C14_NoNullStored ==
    /\ \A i \in 1..Len(shapes) : shapes[i] # null
    /\ \A i \in 1..Len(undoneShapes) : undoneShapes[i] # null

\* C15: in every reachable state the element being drawn is no element of
\* shapes or of undoneShapes.
C15_SelectedNotStored ==
    selectedElement # null =>
        /\ \A i \in 1..Len(shapes) : shapes[i] # selectedElement
        /\ \A i \in 1..Len(undoneShapes) : undoneShapes[i] # selectedElement

RECURSIVE Reverse(_)
Reverse(s) == IF s = <<>> THEN <<>> ELSE Append(Reverse(Tail(s)), Head(s))

\* shapes followed by undoneShapes from its last element to its first.
Timeline(h, sh, un) == Objects(h, sh) \o Reverse(Objects(h, un))

\* The element being drawn, the tool and the settings stay as they are.
RestUnchanged ==
    /\ Objects(heap', <<selectedElement'>>) = Objects(heap, <<selectedElement>>)
    /\ UiUnchanged

\* C17: undo with shapes not empty takes the last element of shapes and
\* makes it the last of undoneShapes; redo with undoneShapes not empty takes
\* the last element of undoneShapes and makes it the last of shapes.  The
\* other elements keep their places and values, the element being drawn, the
\* tool and the settings are unchanged, and shapes followed by the reverse
\* of undoneShapes is the same list before and after.
C17_UndoRedoFrame ==
    [][/\ (Undoes /\ shapes # <<>>) =>
              /\ Objects(heap', shapes') = Front(Objects(heap, shapes))
              /\ Objects(heap', undoneShapes') =
                     Append(Objects(heap, undoneShapes),
                            Last(Objects(heap, shapes)))
              /\ RestUnchanged
       /\ (Redoes /\ undoneShapes # <<>>) =>
              /\ Objects(heap', undoneShapes') =
                     Front(Objects(heap, undoneShapes))
              /\ Objects(heap', shapes') =
                     Append(Objects(heap, shapes),
                            Last(Objects(heap, undoneShapes)))
              /\ RestUnchanged
       /\ (Undoes \/ Redoes) =>
              Timeline(heap', shapes', undoneShapes') =
                  Timeline(heap, shapes, undoneShapes)]_vars

\* An undo has just left one shape drawn and two undone, with an element
\* being drawn.
C17_Witness ==
    /\ event.name = "undo"
    /\ Len(shapes) = 1
    /\ Len(undoneShapes) = 2
    /\ selectedElement # null

undefined == [kind |-> "undefined", halves |-> 0]

NaN == [kind |-> "NaN", halves |-> 0]

Number(n) == [kind |-> "number", halves |-> 2 * n]

\* list[i], indices from 0
At(list, i) == IF i + 1 \in 1..Len(list) THEN Number(list[i + 1]) ELSE undefined

\* (a + b) / 2
Half(a, b) ==
    IF a.kind = "number" /\ b.kind = "number"
    THEN [kind |-> "number", halves |-> (a.halves + b.halves) \div 2]
    ELSE NaN

moveTo(x, y) == [op |-> "moveTo", args |-> <<x, y>>]

quadraticCurveTo(cpx, cpy, x, y) ==
    [op |-> "quadraticCurveTo", args |-> <<cpx, cpy, x, y>>]

RECURSIVE Smoothed(_, _)
\* The loop for (let i = 0; ; i++) of the two render methods, from i on.
Smoothed(o, i) ==
    IF i > Len(o.xList) - 1
    THEN <<quadraticCurveTo(At(o.xList, i), At(o.yList, i),
                            At(o.xList, i + 1), At(o.yList, i + 1))>>
    ELSE LET center == [x |-> Half(At(o.xList, i), At(o.xList, i + 1)),
                        y |-> Half(At(o.yList, i), At(o.yList, i + 1))]
         IN  <<quadraticCurveTo(At(o.xList, i), At(o.yList, i),
                                center.x, center.y)>>
             \o Smoothed(o, i + 1)

\* The calls LineList.render makes between beginPath and stroke.
LineListPath(o) ==
    <<moveTo(Number(o.position.x), Number(o.position.y))>> \o Smoothed(o, 0)

\* The calls EraseList.render makes between beginPath and stroke.
EraseListPath(o) ==
    <<moveTo(Number(o.position.x), Number(o.position.y))>> \o Smoothed(o, 0)

Path(o) == IF o.cls = "EraseList" THEN EraseListPath(o) ELSE LineListPath(o)

Strokes == {i \in DOMAIN heap : heap[i].cls \in {"LineList", "EraseList"}}

\* C19: the path of every LineList and EraseList with at least one point
\* starts at the shape's position; its curve i, for every point i but the
\* last, has point i as its control point and ends halfway between point i
\* and point i + 1; its last curve ends at the last point; and every
\* coordinate of every call is a number read from the shape.
C19_SmoothedPath ==
    \A s \in Strokes :
        LET o == heap[s]
            n == Len(o.xList)
            path == Path(o)
            P(i) == [x |-> Number(o.xList[i]), y |-> Number(o.yList[i])]
        IN  n >= 1 =>
                /\ path[1] = moveTo(Number(o.position.x), Number(o.position.y))
                /\ \A i \in 1..(n - 1) :
                       path[i + 1] =
                           quadraticCurveTo(P(i).x, P(i).y,
                                            Half(P(i).x, P(i + 1).x),
                                            Half(P(i).y, P(i + 1).y))
                /\ Last(path).args[3] = P(n).x
                /\ Last(path).args[4] = P(n).y
                /\ \A c \in 1..Len(path) :
                       \A a \in 1..Len(path[c].args) :
                           path[c].args[a].kind = "number"

(***************************************************************************)
(* Typing.  A run of SpecText starts with the text tool chosen; the keys   *)
(* are two characters, Enter, and Delete and Shift, which are no           *)
(* characters.                                                             *)
(***************************************************************************)
TextKeys == {"H", "i", "Delete", "Enter"}

TextDownKeys == {"Backspace", "Shift"}

InitText == InitAt(availableShapes.DrawnText)

NextText ==
    \/ \E pos \in DownPos \cup MovePos : mousedown(pos)
    \/ \E key \in TextKeys : keypress(Key(key, FALSE, FALSE))
    \/ \E key \in TextDownKeys : keydown(key)
    \/ btnUndoClick
    \/ btnRedoClick

SpecText == InitText /\ [][NextText]_vars

Str(s) == [kind |-> "string", halves |-> 0, str |-> s]

\* arguments[i - 1]
Arg(args, i) == IF i <= Len(args) THEN args[i] ELSE undefined

\* a - n, n a number
Minus(a, n) ==
    IF a.kind = "number" THEN Number(a.halves \div 2 - n) ELSE NaN

\* Math.abs(a) / 2
HalfAbs(a) ==
    IF a.kind = "number"
    THEN [kind |-> "number", halves |-> Abs(a.halves) \div 2]
    ELSE NaN

\* Math.max(a, b) / 2
HalfMax(a, b) ==
    IF a.kind = "number" /\ b.kind = "number"
    THEN [kind |-> "number", halves |-> Max(a.halves, b.halves) \div 2]
    ELSE NaN

\* The arguments are what the handlers pass to an object of o's class.
Fits(o, args) ==
    IF o.cls = "DrawnText"
    THEN Len(args) = 1 /\ args[1].kind = "string"
    ELSE Len(args) = 2 /\ args[1].kind = "number" /\ args[2].kind = "number"

\* o.resize(...args): whether it throws, and the object afterwards.
resizeCall(o, args) ==
    LET a == Arg(args, 1)
        b == Arg(args, 2)
        Returns(obj) == [threw |-> FALSE, o |-> obj]
    IN  IF Fits(o, args)
        THEN Returns(IF o.cls = "DrawnText" THEN DrawnTextResize(o, a.str)
                     ELSE resize(o, a.halves \div 2, b.halves \div 2))
        ELSE CASE o.cls = "Rectangle" ->
                      Returns([o EXCEPT !.width = Minus(a, o.position.x),
                                        !.height = Minus(b, o.position.y)])
               [] o.cls = "Oval" ->
                      Returns([o EXCEPT
                                   !.x = a, !.y = b,
                                   !.xRadius = HalfAbs(Minus(a, o.position.x)),
                                   !.yRadius = HalfAbs(Minus(b, o.position.y))])
               [] o.cls = "Circle" ->
                      LET radius == HalfMax(HalfAbs(Minus(a, o.position.x)),
                                            HalfAbs(Minus(b, o.position.y)))
                      IN  Returns([o EXCEPT !.x = a, !.y = b,
                                            !.xRadius = radius,
                                            !.yRadius = radius])
               [] o.cls = "Line" ->
                      Returns([o EXCEPT !.endPosition = [x |-> a, y |-> b]])
               [] o.cls \in {"LineList", "EraseList"} ->
                      Returns([o EXCEPT !.xList = Append(@, a),
                                        !.yList = Append(@, b)])
               [] o.cls = "DrawnText" ->
                      \* key.length of undefined is a TypeError; a number has
                      \* no length and is no 'Backspace'.
                      IF a.kind = "undefined"
                      THEN [threw |-> TRUE, o |-> o]
                      ELSE Returns(o)

\* The call as it is written: resize(number,number), resize(string), resize().
Signature(args) ==
    CASE Len(args) = 0 -> "resize()"
      [] Len(args) = 1 -> "resize(" \o args[1].kind \o ")"
      [] Len(args) = 2 -> "resize(" \o args[1].kind \o "," \o args[2].kind \o ")"

\* selectedElement.resize(...args), called on the element being drawn.
selectedElementResize(args) ==
    /\ selectedElement # null
    /\ LET o == heap[selectedElement]
           r == resizeCall(o, args)
       IN  /\ o.cls \in {"LineList", "EraseList"}
                  => Len(o.xList) < MaxPoints
           /\ (o.cls = "DrawnText" /\ Fits(o, args))
                  => Len(o.chars) < MaxChars
           /\ heap' = [heap EXCEPT ![selectedElement] = r.o]
           /\ Ran(Signature(args), r.threw, FALSE, FALSE)
    /\ UNCHANGED <<shapes, undoneShapes, selectedElement>>
    /\ UiUnchanged

ResizeArgs == {<<Number(6), Number(6)>>, <<Str("H")>>, <<>>}

InitClasses == \E tool \in Constructing : InitAt(tool)

NextClasses ==
    \/ \E pos \in DownPos : mousedown(pos)
    \/ \E args \in ResizeArgs : selectedElementResize(args)
    \/ mouseup
    \/ btnUndoClick

SpecClasses == InitClasses /\ [][NextClasses]_vars

\* C21: whenever resize has just been called with arguments that do not fit
\* the object's class (a key, or nothing, for a Rectangle, an Oval, a Circle,
\* a Line or a list; two numbers, or nothing, for a DrawnText), the call has
\* thrown.  The class of an object does not change, so the state after the
\* call tells whether the arguments fitted.
C21_MisfitsThrow ==
    \A args \in ResizeArgs :
        (/\ event.name = Signature(args)
         /\ selectedElement # null
         /\ ~Fits(heap[selectedElement], args)) => event.threw

(***************************************************************************)
(* Drawing with the mouse, from two places to three, and typing.           *)
(***************************************************************************)
Anchors == DownPos \cup {Point(10, 10)}

Pointers == MovePos \cup {Point(0, 10), Point(50, 40)}

NextShapes ==
    \/ \E pos \in Anchors : mousedown(pos)
    \/ \E pos \in Pointers : mousemove(pos)
    \/ keypress(Key("H", FALSE, FALSE))
    \/ \E key \in DownKeys : keydown(key)

SpecShapes == InitClasses /\ [][NextShapes]_vars

\* The element being drawn is of class cls and the mouse moves to pos.
Resizes(cls, pos) ==
    /\ By("mousemove")
    /\ selectedElement # null
    /\ heap[selectedElement].cls = cls
    /\ mousemove(pos)

\* C22: when the mouse moves to (a, b) while a Circle at (px, py) is being
\* drawn, the Circle's x, y become a, b and its two radii become the same,
\* half the larger of |a - px| and |b - py|, whatever they were.
C22_CircleRadius ==
    [][\A pos \in Pointers :
           Resizes("Circle", pos) =>
               LET p == heap[selectedElement].position
                   o == heap'[selectedElement']
               IN  /\ o.x = pos.x /\ o.y = pos.y
                   /\ o.xRadius = o.yRadius
                   /\ 2 * o.xRadius = Max(Abs(pos.x - p.x), Abs(pos.y - p.y))]_vars

\* A Circle at (2, 4) has just been stretched to (0, 10): radius 3, from the
\* vertical distance.
C22_Witness ==
    /\ event.name = "mousemove"
    /\ selectedElement # null
    /\ heap[selectedElement].cls = "Circle"
    /\ heap[selectedElement].position = Point(2, 4)
    /\ heap[selectedElement].x = 0
    /\ heap[selectedElement].y = 10
    /\ heap[selectedElement].xRadius = 3
    /\ heap[selectedElement].yRadius = 3

\* C23: when the mouse moves to (a, b) while a Rectangle at (px, py) is
\* being drawn, its width becomes a - px and its height b - py, negative
\* when the mouse is left of or above (px, py), whatever they were.
C23_RectangleSigned ==
    [][\A pos \in Pointers :
           Resizes("Rectangle", pos) =>
               LET p == heap[selectedElement].position
                   o == heap'[selectedElement']
               IN  /\ o.width = pos.x - p.x
                   /\ o.height = pos.y - p.y]_vars

\* A Rectangle at (10, 10) has just been stretched to (0, 10), left of it:
\* width -10, height 0.
C23_Witness ==
    /\ event.name = "mousemove"
    /\ selectedElement # null
    /\ heap[selectedElement].cls = "Rectangle"
    /\ heap[selectedElement].position = Point(10, 10)
    /\ heap[selectedElement].width = -10
    /\ heap[selectedElement].height = 0

(***************************************************************************)
(* The points of the lists.                                                *)
(***************************************************************************)
\* The LineLists and EraseLists of a heap, by value.
Lists(h) ==
    {[cls |-> h[i].cls, position |-> h[i].position,
      xList |-> h[i].xList, yList |-> h[i].yList] :
         i \in {j \in DOMAIN h : h[j].cls \in {"LineList", "EraseList"}}}

DialogAt(width, size) ==
    /\ heap = <<>>
    /\ shapes = <<>>
    /\ undoneShapes = <<>>
    /\ selectedShape = availableShapes.LINE_LIST
    /\ selectedElement = null
    /\ settings = [color |-> "#000000", filled |-> FALSE, width |-> width,
                   font |-> [size |-> size, family |-> "sans-serif"]]
    /\ filledData = "no"
    /\ activeLi = {}
    /\ widthValue = width
    /\ fontValue = size
    /\ widthData = width
    /\ fontData = size
    /\ event = [name |-> "init", threw |-> FALSE, redrew |-> FALSE,
                spliced |-> FALSE]

InitDialog ==
    \/ Init
    \/ \E width \in {6, 65} : \E size \in {12, 64} : DialogAt(width, size)

NextDialog ==
    \/ widthDecreaseClick
    \/ widthIncreaseClick
    \/ fontDecreaseClick
    \/ fontIncreaseClick
    \/ sizeAbortClick
    \/ sizeConfirmClick
    \/ \E pos \in DownPos : mousedown(pos)
    \/ mouseup

SpecDialog == InitDialog /\ [][NextDialog]_vars

C26_StoredOnce ==
    LET all == shapes \o undoneShapes
    IN  \A i, j \in 1..Len(all) :
            (i # j /\ all[i] # null) => all[i] # all[j]

(***************************************************************************)
(* A file that is no JSON.                                                 *)
(***************************************************************************)
\* C27: the load of a file that JSON.parse rejects throws and changes
\* nothing: shapes, undoneShapes, the element being drawn, the settings and
\* the tool are as before.
C27_UnparsedChangesNothing ==
    [][\A file \in Files :
           (By("load") /\ ~file.parses /\ constructShapesFromFile(file)) =>
               /\ event'.threw
               /\ ~event'.redrew
               /\ UNCHANGED progVars]_vars

\* A load has just thrown with shapes drawn, undone and in progress: undone
\* shapes outlive no load that parses.
C27_Witness ==
    /\ event.name = "load"
    /\ event.threw
    /\ shapes # <<>>
    /\ undoneShapes # <<>>
    /\ selectedElement # null

(***************************************************************************)
(* The compositing mode through a redraw.  Setting the canvas's width      *)
(* resets the context, so a redraw starts in source-over; every render     *)
(* assigns ctx.globalCompositeOperation before it strokes or fills.        *)
(***************************************************************************)
\* o.render without its assignment for any class but EraseList.
compositeOperationKept(gco, o) ==
    IF o.cls = "EraseList" THEN "destination-out" ELSE gco

\* ctx.globalCompositeOperation when o.render(ctx) strokes or fills, the
\* context having come with gco.
compositeOperation(gco, o) ==
    CASE o.cls = "Rectangle" -> "source-over"
      [] o.cls = "Oval"      -> "source-over"
      [] o.cls = "Circle"    -> "source-over"
      [] o.cls = "Line"      -> "source-over"
      [] o.cls = "LineList"  -> "source-over"
      [] o.cls = "EraseList" -> "destination-out"
      [] o.cls = "DrawnText" -> "source-over"

RECURSIVE renderEach(_, _, _)
\* The renders of drawAllStoredShapes and drawSelected on one context.
renderEach(gco, h, refs) ==
    IF refs = <<>> THEN <<>>
    ELSE IF Head(refs) = null THEN renderEach(gco, h, Tail(refs))
    ELSE LET o == h[Head(refs)]
             mode == compositeOperation(gco, o)
         IN  <<[globalCompositeOperation |-> mode, shape |-> o]>>
             \o renderEach(mode, h, Tail(refs))

\* C28: in the redraw of every reachable state each shape that is no
\* EraseList is painted in source-over, whatever was painted before it,
\* and each EraseList in destination-out.
C28_EraserDoesNotCarryOver ==
    LET calls == renderEach("source-over", heap,
                            Append(shapes, selectedElement))
    IN  /\ \A i \in 1..Len(calls) :
               calls[i].globalCompositeOperation =
                   IF calls[i].shape.cls = "EraseList"
                   THEN "destination-out" ELSE "source-over"
        /\ calls = redraw(heap, shapes, selectedElement)

\* A handler has just redrawn an EraseList, a stored shape after it and the
\* element being drawn.
C28_Witness ==
    /\ event.redrew
    /\ selectedElement # null
    /\ \E i \in 1..Len(shapes) : \E j \in (i + 1)..Len(shapes) :
           /\ shapes[i] # null /\ shapes[j] # null
           /\ heap[shapes[i]].cls = "EraseList"
           /\ heap[shapes[j]].cls # "EraseList"

(***************************************************************************)
(* What resize leaves alone.                                               *)
(***************************************************************************)
\* C29: the element a mousedown makes has the mouse's position and the
\* current settings, and no mousemove, keypress or keydown that resizes the
\* element being drawn changes its position, its settings or its class.
C29_ResizeKeepsAnchor ==
    [][/\ \A pos \in Anchors :
              (By("mousedown") /\ mousedown(pos) /\ selectedElement' # null) =>
                  /\ heap'[selectedElement'].position = pos
                  /\ heap'[selectedElement'].settings =
                         IF selectedShape = availableShapes.ERASE_LIST
                         THEN currentSettingsEraser ELSE currentSettings
       /\ (/\ By("mousemove") \/ By("keypress") \/ By("keydown")
           /\ selectedElement # null) =>
              /\ selectedElement' # null
              /\ heap'[selectedElement'].position =
                     heap[selectedElement].position
              /\ heap'[selectedElement'].settings =
                     heap[selectedElement].settings
              /\ heap'[selectedElement'].cls = heap[selectedElement].cls]_vars

\* The mouse has just moved the end of a Line that began at (2, 4).
C29_Witness ==
    /\ event.name = "mousemove"
    /\ selectedElement # null
    /\ heap[selectedElement].cls = "Line"
    /\ heap[selectedElement].position = Point(2, 4)
    /\ heap[selectedElement].endPosition = Point(50, 40)

(***************************************************************************)
(* The fill toggle and the tools.                                          *)
(***************************************************************************)
AllItems == {ShapeList[i] : i \in 1..Len(ShapeList)}

NextFill ==
    \/ ToolClick(AllItems)
    \/ fillToggleClick
    \/ \E pos \in DownPos : mousedown(pos)
    \/ mouseup
    \/ btnUndoClick

SpecFill == Init /\ [][NextFill]_vars

\* C30: in every reachable state settings.filled is what the fill toggle
\* shows, unless the tool is text, the toggle shows no and settings.filled
\* is true; so that under every other tool the two agree.
C30_FillFollowsToggle ==
    settings.filled # (filledData = "yes") =>
        /\ selectedShape = availableShapes.DrawnText
        /\ filledData = "no"
        /\ settings.filled

\* A tool other than text has just been chosen after the text tool, the
\* toggle showing no: the click on text stored a null, and the flag is
\* false again.
C30_Witness ==
    /\ event.name = "select"
    /\ selectedShape # availableShapes.DrawnText
    /\ shapes = <<null>>
    /\ filledData = "no"
    /\ ~settings.filled

(***************************************************************************)
(* The sizes the dialog has stored and the sizes of the settings.          *)
(***************************************************************************)
\* The data-value attributes of the dialog's rows are the width and the font
\* size of drawer.settings.
StoredIsAmbient ==
    /\ widthData = settings.width
    /\ fontData = settings.font.size

\* C31: in every state a step starts from, the width and the font size the
\* dialog has stored are those of the settings; hence a confirm with the
\* shown values as stored, and every abort, leaves the settings as they are.
C31_ConfirmUntouchedKeepsSettings ==
    [][/\ StoredIsAmbient
       /\ (/\ By("sizeConfirm")
           /\ widthValue = widthData
           /\ fontValue = fontData
           /\ sizeConfirmClick) => UNCHANGED settings
       /\ (By("sizeAbort") /\ sizeAbortClick) => UNCHANGED settings]_vars

====
